---- MODULE Spec2Model ----
(***************************************************************************)
(* Bounding-box extraction and clustering engine of                        *)
(* explanations/bounding_box.py.                                           *)
(*                                                                         *)
(* A rectangle is the tuple <<minX, minY, maxX, maxY>>; Python's bb[0..3]  *)
(* is bb[1..4] here.  Python lists are sequences, so Python index i is     *)
(* position i + 1; a cluster is a set of rectangles, as in the source.     *)
(***************************************************************************)
EXTENDS Integers, Sequences, FiniteSets

VARIABLES
    pc,             \* position of the running function
    args,           \* arguments of the function under evaluation
    out,            \* its return value ("none" before it returns)
    bb_list,        \* cluster_nearby_connected_components: list(bbs)
    prev_level, prev_clusters, prev_d,
    new_level, new_clusters, new_d,
    calls,          \* history: number of cluster_closest calls made so far
    accepted,       \* history: levels that became prev_level or the result
    too_many_bbs    \* module-level failure counter

vars == <<pc, args, out, bb_list, prev_level, prev_clusters, prev_d,
          new_level, new_clusters, new_d, calls, accepted, too_many_bbs>>

clusterVars == <<bb_list, prev_level, prev_clusters, prev_d,
                 new_level, new_clusters, new_d, calls, accepted>>

----------------------------------------------------------------------------
(* Bounds of the model *)

MaxCoord == 3       \* grid rectangles have corners in 0..MaxCoord
MaxN == 4           \* longest list of rectangles given to the clustering
MaxCluster == 3     \* largest cluster folded by merge_bbs

----------------------------------------------------------------------------
(* Builtins *)

Min2(a, b) == IF a <= b THEN a ELSE b

Max2(a, b) == IF a >= b THEN a ELSE b

----------------------------------------------------------------------------
(* Rectangles *)

WellFormed(bb) == bb[1] <= bb[3] /\ bb[2] <= bb[4]

GridRects ==
    { bb \in (0..MaxCoord) \X (0..MaxCoord) \X (0..MaxCoord) \X (0..MaxCoord) :
        WellFormed(bb) }

width(bb) == bb[3] - bb[1]

height(bb) == bb[4] - bb[2]

merge_bb_no_max(bb0, bb1) ==
    <<Min2(bb0[1], bb1[1]), Min2(bb0[2], bb1[2]), bb1[3], bb1[4]>>

merge_bb(bb0, bb1) ==
    <<Min2(bb0[1], bb1[1]), Min2(bb0[2], bb1[2]),
      Max2(bb0[3], bb1[3]), Max2(bb0[4], bb1[4])>>

\* reduce(merge_bb, cluster): a left fold over the iteration order of the
\* cluster, given here as the sequence order.
RECURSIVE reduce_merge_bb(_, _, _)
reduce_merge_bb(acc, order, k) ==
    IF k > Len(order) THEN acc
    ELSE reduce_merge_bb(merge_bb(acc, order[k]), order, k + 1)

merge_bbs(order) == reduce_merge_bb(order[1], order, 2)

min_squared_distance_unclamped(bb0, bb1) ==
    LET outer_bb == merge_bb(bb0, bb1)
        inner_w == width(outer_bb) - width(bb0) - width(bb1)
        inner_h == height(outer_bb) - height(bb0) - height(bb1)
    IN  inner_w * inner_w + inner_h * inner_h

min_squared_distance_first_only(bb0, bb1) ==
    LET outer_bb == merge_bb(bb0, bb1)
        inner_w == width(outer_bb) - width(bb0) - width(bb0)
        inner_h == height(outer_bb) - height(bb0) - height(bb0)
        clamped_inner_w == Max2(0, inner_w)
        clamped_inner_h == Max2(0, inner_h)
    IN  clamped_inner_w * clamped_inner_w + clamped_inner_h * clamped_inner_h

min_squared_distance(bb0, bb1) ==
    LET outer_bb == merge_bb(bb0, bb1)
        inner_w == width(outer_bb) - width(bb0) - width(bb1)
        inner_h == height(outer_bb) - height(bb0) - height(bb1)
        clamped_inner_w == Max2(0, inner_w)
        clamped_inner_h == Max2(0, inner_h)
    IN  clamped_inner_w * clamped_inner_w + clamped_inner_h * clamped_inner_h

----------------------------------------------------------------------------
(* Distance matrix: a sequence of rows.  Only the entries on and above the *)
(* diagonal are read; np.full fills the rest with -999.                    *)

get_d(i, j, d) == IF j < i THEN d[j][i] ELSE d[i][j]

\* Lines 172-178: one iteration of the inner loop of the scan.
ScanStepMax(acc, i, j, d) ==
    LET d_scalar == get_d(i, j, d)
    IN  IF d_scalar >= acc.min_d
        THEN [min_i |-> i, min_j |-> j, min_d |-> d_scalar]
        ELSE acc

ScanStepKeepFirst(acc, i, j, d) ==
    LET d_scalar == get_d(i, j, d)
    IN  IF d_scalar < acc.min_d \/ acc.min_i = 0
        THEN [min_i |-> i, min_j |-> j, min_d |-> d_scalar]
        ELSE acc

ScanStep(acc, i, j, d) ==
    LET d_scalar == get_d(i, j, d)
    IN  IF d_scalar <= acc.min_d
        THEN [min_i |-> i, min_j |-> j, min_d |-> d_scalar]
        ELSE acc

\* for j in range(i + 1, size): the iterations for the columns lo..hi of
\* row i, in increasing order.  The range is halved instead of peeled,
\* and the first half is evaluated (first = first) before the second is
\* entered, so that the evaluation depth stays logarithmic in the number
\* of columns.
RECURSIVE ScanRow(_, _, _, _, _)
ScanRow(acc, i, lo, hi, d) ==
    IF lo > hi THEN acc
    ELSE IF lo = hi THEN ScanStep(acc, i, lo, d)
    ELSE LET mid == (lo + hi) \div 2
             first == ScanRow(acc, i, lo, mid, d)
         IN  IF first = first THEN ScanRow(first, i, mid + 1, hi, d) ELSE acc

\* for i in range(size): the iterations for the rows lo..hi, in increasing
\* order.
RECURSIVE ScanRows(_, _, _, _, _)
ScanRows(acc, lo, hi, size, d) ==
    IF lo > hi THEN acc
    ELSE IF lo = hi THEN ScanRow(acc, lo, lo + 1, size, d)
    ELSE LET mid == (lo + hi) \div 2
             first == ScanRows(acc, lo, mid, size, d)
         IN  IF first = first THEN ScanRows(first, mid + 1, hi, size, d) ELSE acc

\* min_i = min_j = -1 is position 0 here; min_d starts at d[0][1].
ClosestPair(size, d) ==
    ScanRows([min_i |-> 0, min_j |-> 0, min_d |-> d[1][2]], 1, size, size, d)

\* The indices np.delete(..., [min_i, min_j], ...) keeps, in order.
Kept(size, min_i, min_j) ==
    SelectSeq([k \in 1..size |-> k], LAMBDA cur : cur # min_i /\ cur # min_j)

\* np.delete(np.delete(d, [min_i, min_j], 0), [min_i, min_j], 1)
DroppedD(size, min_i, min_j, d) ==
    LET keep == Kept(size, min_i, min_j)
    IN  [r \in 1..(size - 2) |-> [c \in 1..(size - 2) |-> d[keep[r]][keep[c]]]]

NewValsMax(size, min_i, min_j, d) ==
    LET keep == Kept(size, min_i, min_j)
    IN  [k \in 1..(size - 2) |->
            Max2(get_d(keep[k], min_i, d), get_d(keep[k], min_j, d))] \o <<0>>

NewVals(size, min_i, min_j, d) ==
    LET keep == Kept(size, min_i, min_j)
    IN  [k \in 1..(size - 2) |->
            Min2(get_d(keep[k], min_i, d), get_d(keep[k], min_j, d))] \o <<0>>

\* np.full((size - 1, size - 1), -999); the top-left block is dropped_d and
\* the last column is new_vals.
NewD(size, dropped_d, new_vals) ==
    [r \in 1..(size - 1) |-> [c \in 1..(size - 1) |->
        IF c = size - 1 THEN new_vals[r]
        ELSE IF r = size - 1 THEN -999
        ELSE dropped_d[r][c]]]

\* del lst[k]
DelAt(lst, k) == SubSeq(lst, 1, k - 1) \o SubSeq(lst, k + 1, Len(lst))

NewClustersKeepI(clusters, min_i, min_j) ==
    Append(DelAt(clusters, min_j), clusters[min_i] \cup clusters[min_j])

NewClusters(clusters, min_i, min_j) ==
    Append(DelAt(DelAt(clusters, min_j), min_i),
           clusters[min_i] \cup clusters[min_j])

\* Returns (level, new_clusters, new_d), or raises.
cluster_closest(clusters, d) ==
    LET size == Len(clusters)
    IN  IF size < 2
        THEN [raised |-> TRUE, level |-> 0, clusters |-> <<>>, d |-> <<>>]
        ELSE LET m == ClosestPair(size, d)
                 dropped_d == DroppedD(size, m.min_i, m.min_j, d)
                 new_vals == NewVals(size, m.min_i, m.min_j, d)
             IN  [raised |-> FALSE,
                  level |-> m.min_d + 1,
                  clusters |-> NewClusters(clusters, m.min_i, m.min_j),
                  d |-> NewD(size, dropped_d, new_vals)]

\* Lines 209-220: the initial clusters and distance matrix.
InitClusters(lst) == [i \in 1..Len(lst) |-> {lst[i]}]

InitD(lst) ==
    [i \in 1..Len(lst) |-> [j \in 1..Len(lst) |->
        IF j = i THEN 0
        ELSE IF j < i THEN -999
        ELSE min_squared_distance(lst[i], lst[j])]]

\* new_level < 200 or new_level / prev_level < 2.  Levels are positive
\* integers, so the true division n / p < 2 is n < 2 * p.
ContinueCondAlways(n_level, p_level) == TRUE

ContinueCond(n_level, p_level) == n_level < 200 \/ n_level < 2 * p_level

----------------------------------------------------------------------------
(* Values the unused variables hold in a specification that does not run   *)
(* the function they belong to.                                            *)

IdleCluster ==
    /\ bb_list = <<>>
    /\ prev_level = 1 /\ prev_clusters = <<>> /\ prev_d = <<>>
    /\ new_level = 1 /\ new_clusters = <<>> /\ new_d = <<>>
    /\ calls = 0 /\ accepted = <<>>

----------------------------------------------------------------------------
(* cluster_nearby_connected_components, one action per straight-line piece *)
(* of the function; cluster_closest called on its own.                     *)

\* Rectangles given to the clustering: the two of the far-apart example,
\* and rectangles whose gaps put merge levels below, at and above 200 and
\* on both sides of the factor 2.
RectPool ==
    { <<0, 0, 10, 10>>, <<1000, 1000, 1010, 1010>>, <<5, 5, 8, 8>>,
      <<12, 0, 14, 10>>, <<25, 0, 30, 10>>, <<45, 0, 50, 10>>,
      <<0, 24, 10, 30>>, <<20, 20, 22, 22>> }

RECURSIVE ListsOfLen(_, _)
ListsOfLen(S, n) ==
    IF n = 0 THEN { <<>> }
    ELSE { Append(l, x) : l \in ListsOfLen(S, n - 1), x \in S }

ListsUpTo(S, n) == UNION { ListsOfLen(S, k) : k \in 0..n }

InitCluster ==
    /\ \/ /\ pc = "cluster_nearby_connected_components"
          /\ args \in [fn : {"cluster_nearby_connected_components"},
                        bbs : ListsUpTo(RectPool, MaxN)]
       \/ /\ pc = "cluster_closest"
          /\ \E lst \in ListsUpTo(RectPool, MaxN) :
                args = [fn |-> "cluster_closest",
                        clusters |-> InitClusters(lst), d |-> InitD(lst)]
    /\ out = "none"
    /\ IdleCluster
    /\ too_many_bbs = 0

\* Line 222: if len(prev_clusters) < 2
EarlyReturnOnlyEmpty(clusters) == Len(clusters) < 1

EarlyReturn(clusters) == Len(clusters) < 2

\* Lines 207-224: set-up, the early return and the first cluster_closest.
Start ==
    /\ pc = "cluster_nearby_connected_components"
    /\ bb_list' = args.bbs
    /\ prev_level' = 1
    /\ prev_clusters' = InitClusters(args.bbs)
    /\ prev_d' = InitD(args.bbs)
    /\ IF EarlyReturn(prev_clusters')
       THEN /\ out' = <<prev_level', prev_clusters', prev_d'>>
            /\ pc' = "done"
            /\ UNCHANGED <<new_level, new_clusters, new_d, calls>>
       ELSE LET r == cluster_closest(prev_clusters', prev_d')
            IN  /\ calls' = calls + 1
                /\ IF r.raised
                   THEN /\ pc' = "raised"
                        /\ UNCHANGED <<new_level, new_clusters, new_d, out>>
                   ELSE /\ new_level' = r.level
                        /\ new_clusters' = r.clusters
                        /\ new_d' = r.d
                        /\ pc' = "while"
                        /\ out' = out
    /\ UNCHANGED <<args, accepted, too_many_bbs>>

\* Lines 231-238: one iteration of the while loop.
LoopBody ==
    /\ pc = "while"
    /\ ContinueCond(new_level, prev_level) /\ Len(new_clusters) > 1
    /\ prev_level' = new_level
    /\ prev_clusters' = new_clusters
    /\ prev_d' = new_d
    /\ accepted' = Append(accepted, new_level)
    /\ calls' = calls + 1
    /\ LET r == cluster_closest(prev_clusters', prev_d')
       IN  IF r.raised
           THEN /\ pc' = "raised"
                /\ UNCHANGED <<new_level, new_clusters, new_d>>
           ELSE /\ new_level' = r.level
                /\ new_clusters' = r.clusters
                /\ new_d' = r.d
                /\ pc' = "while"
    /\ UNCHANGED <<args, out, bb_list, too_many_bbs>>

\* Lines 243-246: the loop has ended; commit or roll back the last merge.
ReturnRollBackNever ==
    /\ pc = "while"
    /\ ~(ContinueCond(new_level, prev_level) /\ Len(new_clusters) > 1)
    /\ out' = <<new_level, new_clusters, new_d>>
    /\ accepted' = Append(accepted, new_level)
    /\ pc' = "done"
    /\ UNCHANGED <<args, bb_list, prev_level, prev_clusters, prev_d,
                   new_level, new_clusters, new_d, calls, too_many_bbs>>

Return ==
    /\ pc = "while"
    /\ ~(ContinueCond(new_level, prev_level) /\ Len(new_clusters) > 1)
    /\ IF ContinueCond(new_level, prev_level)
       THEN /\ out' = <<new_level, new_clusters, new_d>>
            /\ accepted' = Append(accepted, new_level)
       ELSE /\ out' = <<prev_level, prev_clusters, prev_d>>
            /\ accepted' = accepted
    /\ pc' = "done"
    /\ UNCHANGED <<args, bb_list, prev_level, prev_clusters, prev_d,
                   new_level, new_clusters, new_d, calls, too_many_bbs>>

\* cluster_closest(clusters, d) called directly.
CallClusterClosest ==
    /\ pc = "cluster_closest"
    /\ LET r == cluster_closest(args.clusters, args.d)
       IN  IF r.raised
           THEN pc' = "raised" /\ out' = out
           ELSE pc' = "done" /\ out' = <<r.level, r.clusters, r.d>>
    /\ UNCHANGED <<args, clusterVars, too_many_bbs>>

NextCluster == Start \/ LoopBody \/ Return \/ CallClusterClosest

SpecCluster == InitCluster /\ [][NextCluster]_vars

----------------------------------------------------------------------------
(* min_squared_distance applied to every pair of grid rectangles *)

InitDist ==
    /\ pc = "min_squared_distance"
    /\ args \in [fn : {"min_squared_distance"}, bb0 : GridRects, bb1 : GridRects]
    /\ out = "none"
    /\ IdleCluster
    /\ too_many_bbs = 0

CallMinSquaredDistance ==
    /\ pc = "min_squared_distance"
    /\ out' = min_squared_distance(args.bb0, args.bb1)
    /\ pc' = "done"
    /\ UNCHANGED <<args, clusterVars, too_many_bbs>>

NextDist == CallMinSquaredDistance

SpecDist == InitDist /\ [][NextDist]_vars

----------------------------------------------------------------------------
(* merge_bbs applied to every cluster of up to MaxCluster pool rectangles, *)
(* in every iteration order the set may have.                              *)

Range(f) == { f[k] : k \in DOMAIN f }

Orders(S, n) ==
    { o \in ListsUpTo(S, n) : Len(o) >= 1 /\ Cardinality(Range(o)) = Len(o) }

InitMerge ==
    /\ pc = "merge_bbs"
    /\ \E order \in Orders(RectPool, MaxCluster) :
          args = [fn |-> "merge_bbs", cluster |-> Range(order), order |-> order]
    /\ out = "none"
    /\ IdleCluster
    /\ too_many_bbs = 0

CallMergeBbs ==
    /\ pc = "merge_bbs"
    /\ out' = merge_bbs(args.order)
    /\ pc' = "done"
    /\ UNCHANGED <<args, clusterVars, too_many_bbs>>

NextMerge == CallMergeBbs

SpecMerge == InitMerge /\ [][NextMerge]_vars

----------------------------------------------------------------------------
(* _to_pdf_coordinates.  A float is modelled as the exact rational         *)
(* <<numerator, denominator>> in lowest terms with a positive denominator. *)

RECURSIVE Gcd(_, _)
Gcd(a, b) == IF b = 0 THEN a ELSE Gcd(b, a % b)

Abs(a) == IF a < 0 THEN -a ELSE a

Frac(n, d) ==
    LET g == Gcd(Abs(n), Abs(d))
        sgn == IF d < 0 THEN -1 ELSE 1
    IN  <<sgn * (n \div g), sgn * (d \div g)>>

FromInt(n) == <<n, 1>>

FMul(a, b) == Frac(a[1] * b[1], a[2] * b[2])

FDiv(a, b) == Frac(a[1] * b[2], a[2] * b[1])

FSub(a, b) == Frac(a[1] * b[2] - b[1] * a[2], a[2] * b[2])

FLeq(a, b) == a[1] * b[2] <= b[1] * a[2]

\* Lines 81-82: coordinate * (pdf_page_width / image_width)
ScaleX(x, pdf_page_width, image_width) ==
    FMul(FromInt(x), FDiv(pdf_page_width, FromInt(image_width)))

\* Lines 85-86: pdf_page_height - (y * (pdf_page_height / image_height))
FlipYNoFlip(y, pdf_page_height, image_height) ==
    FMul(FromInt(y), FDiv(pdf_page_height, FromInt(image_height)))

FlipY(y, pdf_page_height, image_height) ==
    FSub(pdf_page_height,
         FMul(FromInt(y), FDiv(pdf_page_height, FromInt(image_height))))

\* _to_pdf_coordinates
to_pdf_coordinates(bounding_box, image_width, image_height, pdf_page_width, pdf_page_height, page) ==
    LET left == bounding_box[1]
        top == bounding_box[2]
        right == bounding_box[3]
        bottom == bounding_box[4]
        pdf_left == ScaleX(left, pdf_page_width, image_width)
        pdf_right == ScaleX(right, pdf_page_width, image_width)
        pdf_top == FlipY(top, pdf_page_height, image_height)
        pdf_bottom == FlipY(bottom, pdf_page_height, image_height)
    IN  [left |-> pdf_left,
         top |-> pdf_top,
         width |-> FSub(pdf_right, pdf_left),
         height |-> FSub(pdf_top, pdf_bottom),
         page |-> page]

\* Image sizes in pixels <<width, height>> and page sizes in document units.
ImageSizes == { <<1000, 1000>>, <<40, 30>>, <<7, 3>> }

PageSizes == { <<<<100, 1>>, <<100, 1>>>>, <<<<612, 1>>, <<792, 1>>>>,
               <<<<1191, 2>>, <<842, 1>>>>, <<<<3, 1>>, <<5, 2>>>> }

PdfBoxes == GridRects \cup { <<0, 0, 100, 100>>, <<5, 20, 30, 25>> }

InitPdf ==
    /\ pc = "_to_pdf_coordinates"
    /\ \E box \in PdfBoxes, img \in ImageSizes, pg \in PageSizes, n \in 0..1 :
          args = [fn |-> "_to_pdf_coordinates", bounding_box |-> box,
                  image_width |-> img[1], image_height |-> img[2],
                  pdf_page_width |-> pg[1], pdf_page_height |-> pg[2],
                  page |-> n]
    /\ out = "none"
    /\ IdleCluster
    /\ too_many_bbs = 0

CallToPdfCoordinates ==
    /\ pc = "_to_pdf_coordinates"
    /\ out' = to_pdf_coordinates(args.bounding_box, args.image_width,
                                 args.image_height, args.pdf_page_width,
                                 args.pdf_page_height, args.page)
    /\ pc' = "done"
    /\ UNCHANGED <<args, clusterVars, too_many_bbs>>

NextPdf == CallToPdfCoordinates

SpecPdf == InitPdf /\ [][NextPdf]_vars

----------------------------------------------------------------------------
(* process_image.  The image is given by what find_connected_components    *)
(* returns for each colour band: img[1] for index 0 (blue), img[2] for     *)
(* index 1 (green), img[3] for index 2 (red).                              *)

MaxFailures == 2    \* process_image is not called again after this many failures

\* Lines 231-246 as a function of the loop's variables.
RECURSIVE WhileLoop(_, _, _, _, _, _)
WhileLoop(p_level, p_clusters, p_d, n_level, n_clusters, n_d) ==
    IF ContinueCond(n_level, p_level) /\ Len(n_clusters) > 1
    THEN LET r == cluster_closest(n_clusters, n_d)
         IN  WhileLoop(n_level, n_clusters, n_d, r.level, r.clusters, r.d)
    ELSE IF ContinueCond(n_level, p_level)
         THEN <<n_level, n_clusters, n_d>>
         ELSE <<p_level, p_clusters, p_d>>

\* The value Start, LoopBody and Return compute step by step.
cluster_nearby_connected_components(bbs) ==
    LET p_clusters == InitClusters(bbs)
        p_d == InitD(bbs)
    IN  IF EarlyReturn(p_clusters) THEN <<1, p_clusters, p_d>>
        ELSE LET r == cluster_closest(p_clusters, p_d)
             IN  WhileLoop(1, p_clusters, p_d, r.level, r.clusters, r.d)

\* An iteration order of a set.
RECURSIVE IterationOrder(_)
IterationOrder(S) ==
    IF S = {} THEN <<>>
    ELSE LET x == CHOOSE y \in S : TRUE
         IN  <<x>> \o IterationOrder(S \ {x})

\* Line 270: the ceiling on the number of components of one colour band.
MaxBbs == 500

bbs_for_color_ceiling_inclusive(bbs) ==
    IF Len(bbs) >= MaxBbs THEN <<FALSE, <<>>>>
    ELSE LET clusters == cluster_nearby_connected_components(bbs)[2]
         IN  <<TRUE, [k \in 1..Len(clusters) |->
                         merge_bbs(IterationOrder(clusters[k]))]>>

\* bbs is find_connected_components(img, lowerBgr(i), upperBgr(i)).
bbs_for_color(bbs) ==
    IF Len(bbs) > MaxBbs THEN <<FALSE, <<>>>>
    ELSE LET clusters == cluster_nearby_connected_components(bbs)[2]
         IN  <<TRUE, [k \in 1..Len(clusters) |->
                         merge_bbs(IterationOrder(clusters[k]))]>>

bb_to_dict(bb) ==
    [p_min |-> [x |-> bb[1], y |-> bb[2]], p_max |-> [x |-> bb[3], y |-> bb[4]]]

\* Lines 305-325: the records of the label and equation boxes; the id
\* "label_3" is <<"label", 3>>.
Dicts(class, boxes) ==
    [i \in 1..Len(boxes) |->
        [boundingBox |-> bb_to_dict(boxes[i]), class |-> class, id |-> <<class, i - 1>>]]

\* n components in a row, each further than the merge threshold from the next.
FarRow(n) == [k \in 1..n |-> <<20 * k, 0, 20 * k + 1, 1>>]

FewBbs == << <<0, 0, 10, 10>>, <<12, 0, 14, 10>>, <<45, 0, 50, 10>> >>

ChannelPool == { <<>>, FewBbs, FarRow(MaxBbs + 1) }

\* Images <<blue, green, red>>: every combination of no, few and one too
\* many components, and images with a band exactly at the ceiling.
ImagePool ==
    (ChannelPool \X ChannelPool \X ChannelPool)
    \cup { <<FarRow(MaxBbs), FewBbs, <<>>>>,
           <<FewBbs, FarRow(MaxBbs), FarRow(MaxBbs + 1)>>,
           <<FarRow(MaxBbs + 1), <<>>, FarRow(MaxBbs)>>,
           <<<<>>, FarRow(MaxBbs), FarRow(MaxBbs)>> }

InitImage ==
    /\ pc = "idle"
    /\ args = [fn |-> "process_image", img |-> <<<<>>, <<>>, <<>>>>]
    /\ out = "none"
    /\ IdleCluster
    /\ too_many_bbs = 0

\* A caller passes the next image to process_image.
CallProcessImage ==
    /\ pc = "idle"
    /\ too_many_bbs < MaxFailures
    /\ \E img \in ImagePool : args' = [fn |-> "process_image", img |-> img]
    /\ pc' = "process_image"
    /\ out' = "none"
    /\ UNCHANGED <<clusterVars, too_many_bbs>>

\* Lines 290-327.
process_image ==
    /\ pc = "process_image"
    /\ LET blue == bbs_for_color(args.img[1])
           green == bbs_for_color(args.img[2])
           red == bbs_for_color(args.img[3])
       IN  IF ~blue[1] \/ ~green[1] \/ ~red[1]
           THEN /\ too_many_bbs' = too_many_bbs + 1
                /\ out' = <<>>
           ELSE /\ too_many_bbs' = too_many_bbs
                /\ out' = Dicts("label", blue[2])
                            \o Dicts("equation", green[2] \o red[2])
    /\ pc' = "idle"
    /\ UNCHANGED <<args, clusterVars>>

NextImage == CallProcessImage \/ process_image

SpecImage == InitImage /\ [][NextImage]_vars

----------------------------------------------------------------------------
(* Properties of the clustering *)

Nearby == args.fn = "cluster_nearby_connected_components"

Returned == pc = "done"

NonDecreasing(levels) ==
    \A k \in 1..(Len(levels) - 1) : levels[k] <= levels[k + 1]

IsSquare(d, n) == Len(d) = n /\ \A r \in 1..n : Len(d[r]) = n

\* C1: given exactly two rectangles whose squared gap distance d has
\* d + 1 >= 200, cluster_nearby_connected_components returns the two
\* singleton clusters unmerged; so it does for <<0, 0, 10, 10>> and
\* <<1000, 1000, 1010, 1010>>.
C1_FarPairStaysApart ==
    (/\ Nearby /\ Returned /\ Len(args.bbs) = 2
     /\ min_squared_distance(args.bbs[1], args.bbs[2]) + 1 >= 200)
    => /\ out[1] = 1
       /\ out[2] = <<{args.bbs[1]}, {args.bbs[2]}>>
       /\ IsSquare(out[3], 2)

C1_Witness ==
    /\ Nearby /\ Returned
    /\ args.bbs = <<<<0, 0, 10, 10>>, <<1000, 1000, 1010, 1010>>>>
    /\ calls = 1 /\ new_level = 1960201 /\ Len(new_clusters) = 1
    /\ Len(out[2]) = 2

\* C3: the levels of the merges accepted during one run (those that became
\* prev_level or the returned level) form a non-decreasing sequence.
C3_AcceptedLevelsNonDecreasing ==
    Nearby => NonDecreasing(accepted)

C3_Witness ==
    /\ Nearby /\ Returned
    /\ Len(accepted) >= 2
    /\ accepted[1] < accepted[2]

\* C4: after k cluster_closest steps from N singleton clusters there are
\* N - k clusters and an (N - k) x (N - k) matrix; a step removes two
\* clusters of its input and appends their union.
C4_ClusterCount ==
    /\ (Nearby /\ pc = "while") =>
          /\ Len(new_clusters) = Len(bb_list) - calls
          /\ IsSquare(new_d, Len(bb_list) - calls)
          /\ Len(prev_clusters) = Len(bb_list) - (calls - 1)
          /\ \E i, j \in 1..Len(prev_clusters) :
                /\ i < j
                /\ new_clusters =
                     Append(DelAt(DelAt(prev_clusters, j), i),
                            prev_clusters[i] \cup prev_clusters[j])
    /\ (args.fn = "cluster_closest" /\ Returned) =>
          /\ Len(out[2]) = Len(args.clusters) - 1
          /\ IsSquare(out[3], Len(args.clusters) - 1)

C4_Witness ==
    /\ Nearby /\ pc = "while"
    /\ Len(bb_list) = 3 /\ calls = 2 /\ Len(new_clusters) = 1

\* C5: cluster_nearby_connected_components never raises: no rectangle
\* gives the empty list, one rectangle gives its singleton cluster, and
\* every cluster_closest call it makes has at least 2 clusters;
\* cluster_closest called directly raises exactly when given fewer than 2.
C5_NoRaiseFromNearby ==
    /\ Nearby =>
          /\ pc # "raised"
          /\ (Returned /\ Len(args.bbs) = 0) => (out[2] = <<>> /\ calls = 0)
          /\ (Returned /\ Len(args.bbs) = 1) =>
                (out[2] = <<{args.bbs[1]}>> /\ calls = 0)
          /\ calls > 0 => Len(prev_clusters) > 1
    /\ (args.fn = "cluster_closest" /\ pc # "cluster_closest") =>
          (pc = "raised" <=> Len(args.clusters) < 2)

C5_Witness ==
    /\ Nearby /\ Returned
    /\ Len(args.bbs) = 1 /\ calls = 0
    /\ out[2] = <<{args.bbs[1]}>>

\* The clusters reached by merging the closest pair for as long as the
\* merge's level satisfies the condition against the preceding level.
RECURSIVE MergeWhileAllowed(_, _, _)
MergeWhileAllowed(clusters, d, level) ==
    IF Len(clusters) < 2 THEN clusters
    ELSE LET r == cluster_closest(clusters, d)
         IN  IF r.level < 200 \/ r.level < 2 * level
             THEN MergeWhileAllowed(r.clusters, r.d, r.level)
             ELSE clusters

\* C10: for at least 2 rectangles the result is the state reached by
\* closest-pair merges applied for exactly as long as each level L has
\* L < 200 or L / prev < 2 (prev the preceding accepted level, at first 1):
\* every merge in the result satisfied that, and the result is one cluster
\* or a state whose next closest-pair merge fails it.
C10_ReturnsGreedyState ==
    (Nearby /\ Returned /\ Len(args.bbs) >= 2) =>
        /\ out[2] = MergeWhileAllowed(InitClusters(args.bbs), InitD(args.bbs), 1)
        /\ Len(out[2]) = Len(args.bbs) - Len(accepted)
        /\ \A k \in 1..Len(accepted) :
              LET before == IF k = 1 THEN 1 ELSE accepted[k - 1]
              IN  accepted[k] < 200 \/ accepted[k] < 2 * before
        /\ out[1] = (IF accepted = <<>> THEN 1 ELSE accepted[Len(accepted)])
        /\ \/ Len(out[2]) = 1
           \/ LET next == cluster_closest(out[2], out[3])
              IN  ~(next.level < 200 \/ next.level < 2 * out[1])

\* A run that accepts a merge through the ratio test alone and rolls the
\* next one back.
C10_Witness ==
    /\ Nearby /\ Returned
    /\ Len(args.bbs) = 4 /\ Len(out[2]) = 2
    /\ Len(accepted) = 2 /\ calls = 3
    /\ accepted[2] >= 200 /\ accepted[2] < 2 * accepted[1]
    /\ new_level >= 2 * accepted[2]


----------------------------------------------------------------------------
(* Properties of the geometry *)

SetMin(S) == CHOOSE x \in S : \A y \in S : x <= y

SetMax(S) == CHOOSE x \in S : \A y \in S : x >= y

Contains(outer, bb) ==
    /\ outer[1] <= bb[1] /\ outer[2] <= bb[2]
    /\ outer[3] >= bb[3] /\ outer[4] >= bb[4]

\* C6: merge_bbs of a non-empty cluster is the element-wise (min minX,
\* min minY, max maxX, max maxY) over its members whatever the order of the
\* fold, and so contains every member.
C6_MergeIsEnclosingBox ==
    (args.fn = "merge_bbs" /\ Returned) =>
        /\ out = << SetMin({ bb[1] : bb \in args.cluster }),
                    SetMin({ bb[2] : bb \in args.cluster }),
                    SetMax({ bb[3] : bb \in args.cluster }),
                    SetMax({ bb[4] : bb \in args.cluster }) >>
        /\ \A bb \in args.cluster : Contains(out, bb)

C6_Witness ==
    /\ args.fn = "merge_bbs" /\ Returned
    /\ Cardinality(args.cluster) = 3
    /\ out \notin args.cluster
    /\ args.order[3][3] < out[3]

\* The gap between the intervals [lo0, hi0] and [lo1, hi1], 0 if they meet.
Gap(lo0, hi0, lo1, hi1) == Max2(0, Max2(lo0, lo1) - Min2(hi0, hi1))

OverlapOrTouch(a, b) ==
    /\ a[1] <= b[3] /\ b[1] <= a[3]
    /\ a[2] <= b[4] /\ b[2] <= a[4]

\* C8: for well-formed rectangles min_squared_distance is the non-negative
\* gap_x^2 + gap_y^2 between the nearest edges, each gap clamped at 0, and
\* is 0 when the rectangles overlap or touch.
C8_DistanceIsSquaredGap ==
    (args.fn = "min_squared_distance" /\ Returned) =>
        LET a == args.bb0
            b == args.bb1
            gap_x == Gap(a[1], a[3], b[1], b[3])
            gap_y == Gap(a[2], a[4], b[2], b[4])
        IN  /\ out >= 0
            /\ out = gap_x * gap_x + gap_y * gap_y
            /\ OverlapOrTouch(a, b) => out = 0

C8_Witness ==
    /\ args.fn = "min_squared_distance" /\ Returned
    /\ args.bb0 = <<2, 2, 3, 3>> /\ args.bb1 = <<0, 0, 1, 1>>
    /\ out = 2

\* C9: min_squared_distance(a, b) = min_squared_distance(b, a), and
\* min_squared_distance(a, a) = 0.
C9_DistanceSymmetric ==
    (args.fn = "min_squared_distance" /\ Returned) =>
        /\ out = min_squared_distance(args.bb1, args.bb0)
        /\ args.bb0 = args.bb1 => out = 0

C9_Witness ==
    /\ args.fn = "min_squared_distance" /\ Returned
    /\ width(args.bb0) # width(args.bb1)
    /\ height(args.bb0) # height(args.bb1)
    /\ out > 0

\* C7: _to_pdf_coordinates flips the vertical axis:
\* top = page_height - minY * (page_height / image_height) and likewise
\* bottom for maxY, so top >= bottom, height = top - bottom >= 0 and
\* width >= 0; image height 1000, page height 100, minY = 0, maxY = 100
\* give top = 100, bottom = 90, height = 10.
C7_VerticalFlip ==
    (args.fn = "_to_pdf_coordinates" /\ Returned) =>
        LET ph == args.pdf_page_height
            ih == args.image_height
            minY == args.bounding_box[2]
            maxY == args.bounding_box[4]
            pdf_bottom == FSub(out.top, out.height)
        IN  \* top * ih = ph * (ih - minY), bottom * ih = ph * (ih - maxY)
            /\ out.top[1] * ih * ph[2] = out.top[2] * ph[1] * (ih - minY)
            /\ pdf_bottom[1] * ih * ph[2] = pdf_bottom[2] * ph[1] * (ih - maxY)
            /\ FLeq(pdf_bottom, out.top)
            /\ FLeq(FromInt(0), out.height)
            /\ FLeq(FromInt(0), out.width)
            /\ (ih = 1000 /\ ph = <<100, 1>> /\ minY = 0 /\ maxY = 100) =>
                  /\ out.top = <<100, 1>>
                  /\ pdf_bottom = <<90, 1>>
                  /\ out.height = <<10, 1>>

C7_Witness ==
    /\ args.fn = "_to_pdf_coordinates" /\ Returned
    /\ args.image_height = 1000 /\ args.pdf_page_height = <<100, 1>>
    /\ args.bounding_box = <<0, 0, 100, 100>>
    /\ out.top = <<100, 1>> /\ out.height = <<10, 1>>

----------------------------------------------------------------------------
(* Properties of process_image *)

\* C2: if any of the three colour bands has more than 500 components (501
\* does, 500 does not) process_image returns the empty list and adds
\* exactly 1 to too_many_bbs, however many bands are over; otherwise it
\* leaves too_many_bbs unchanged.
C2_TooManyComponents ==
    [][ pc = "process_image" =>
          IF \E c \in 1..3 : Len(args.img[c]) > 500
          THEN out' = <<>> /\ too_many_bbs' = too_many_bbs + 1
          ELSE too_many_bbs' = too_many_bbs ]_vars

C2_Witness ==
    /\ args.fn = "process_image" /\ pc = "idle"
    /\ Len(args.img[1]) = 3
    /\ Len(args.img[2]) = 500
    /\ Len(args.img[3]) = 501
    /\ out = <<>>
    /\ too_many_bbs = 1

----------------------------------------------------------------------------
(* Properties of the merge step *)

\* The unordered pairs of positions of a list of n clusters.
PairsOf(n) == { p \in (1..n) \X (1..n) : p[1] < p[2] }

\* The pairs at the minimum distance of the matrix.
TiedPairs(d, n) ==
    LET least == CHOOSE x \in { get_d(q[1], q[2], d) : q \in PairsOf(n) } :
                     \A y \in { get_d(q[1], q[2], d) : q \in PairsOf(n) } : x <= y
    IN  { p \in PairsOf(n) : get_d(p[1], p[2], d) = least }

\* p is met no later than q by a row-major scan.
RowMajorLeq(p, q) == p[1] < q[1] \/ (p[1] = q[1] /\ p[2] <= q[2])

FirstTied(d, n) ==
    LET tied == TiedPairs(d, n)
    IN  CHOOSE p \in tied : \A q \in tied : RowMajorLeq(p, q)

LastTied(d, n) ==
    LET tied == TiedPairs(d, n)
    IN  CHOOSE p \in tied : \A q \in tied : RowMajorLeq(q, p)

\* The cluster list after the clusters at positions p[1] < p[2] are merged.
MergedAt(clusters, p) ==
    Append(DelAt(DelAt(clusters, p[2]), p[1]), clusters[p[1]] \cup clusters[p[2]])

\* C11 as stated: when several pairs share the minimum distance,
\* cluster_closest merges the first of them in row-major order (smallest i,
\* then smallest j).
C11_FirstTiedPairMerged ==
    /\ (Nearby /\ pc = "while") =>
          new_clusters =
              MergedAt(prev_clusters, FirstTied(prev_d, Len(prev_clusters)))
    /\ (args.fn = "cluster_closest" /\ Returned) =>
          out[2] = MergedAt(args.clusters, FirstTied(args.d, Len(args.clusters)))

\* C11 as amended: when several pairs share the minimum distance,
\* cluster_closest merges the last of them in row-major order (largest i,
\* then largest j); the choice is deterministic.
C11_LastTiedPairMerged ==
    /\ (Nearby /\ pc = "while") =>
          new_clusters =
              MergedAt(prev_clusters, LastTied(prev_d, Len(prev_clusters)))
    /\ (args.fn = "cluster_closest" /\ Returned) =>
          out[2] = MergedAt(args.clusters, LastTied(args.d, Len(args.clusters)))

\* A merge step with tied pairs whose first and last give different lists.
C11_Witness ==
    /\ Nearby /\ pc = "while"
    /\ LET n == Len(prev_clusters)
       IN  /\ Cardinality(TiedPairs(prev_d, n)) >= 2
           /\ MergedAt(prev_clusters, FirstTied(prev_d, n))
                # MergedAt(prev_clusters, LastTied(prev_d, n))
           /\ new_clusters = MergedAt(prev_clusters, LastTied(prev_d, n))

\* The least min_squared_distance between a member of c0 and one of c1.
MemberDistance(c0, c1) ==
    SetMin({ min_squared_distance(a, b) : a \in c0, b \in c1 })

\* Every entry get_d reads for two distinct clusters is their member distance.
SingleLinkage(clusters, d) ==
    \A p \in PairsOf(Len(clusters)) :
        LET least == MemberDistance(clusters[p[1]], clusters[p[2]])
        IN  get_d(p[1], p[2], d) = least /\ get_d(p[2], p[1], d) = least

\* The position before the merge of pair p of the cluster now at position k.
PositionBefore(k, p) ==
    LET a == IF k < p[1] THEN k ELSE k + 1
    IN  IF a < p[2] THEN a ELSE a + 1

\* after is before with the pair p merged: the merged cluster is last and
\* its distance to a remaining cluster is the smaller of the two old
\* distances; the other entries keep their values and their order.
MergedMatrix(before, after, n, p) ==
    /\ \A k \in 1..(n - 2) :
          get_d(k, n - 1, after) =
              Min2(get_d(PositionBefore(k, p), p[1], before),
                   get_d(PositionBefore(k, p), p[2], before))
    /\ \A q \in PairsOf(n - 2) :
          get_d(q[1], q[2], after) =
              get_d(PositionBefore(q[1], p), PositionBefore(q[2], p), before)

\* C12: after any number of cluster_closest steps from the initial matrix,
\* get_d(i, j, d) of two distinct current clusters is the minimum of
\* min_squared_distance over their member pairs; the merged cluster's
\* distance to a remaining cluster k is min(d(old_i, k), d(old_j, k)) and
\* the rows and columns stay aligned with the cluster list.
C12_MatrixIsSingleLinkage ==
    /\ (Nearby /\ pc = "while") =>
          /\ SingleLinkage(prev_clusters, prev_d)
          /\ SingleLinkage(new_clusters, new_d)
          /\ MergedMatrix(prev_d, new_d, Len(prev_clusters),
                          LastTied(prev_d, Len(prev_clusters)))
    /\ (Nearby /\ Returned) => SingleLinkage(out[2], out[3])
    /\ (args.fn = "cluster_closest" /\ Returned) =>
          /\ SingleLinkage(out[2], out[3])
          /\ MergedMatrix(args.d, out[3], Len(args.clusters),
                          LastTied(args.d, Len(args.clusters)))

\* Two merges made; the merged cluster of three is nearer to the remaining
\* cluster through one member than through another.
C12_Witness ==
    /\ Nearby /\ pc = "while"
    /\ calls = 2 /\ Len(new_clusters) = 2
    /\ Cardinality(new_clusters[2]) = 3
    /\ get_d(1, 2, new_d) > 0
    /\ \E a \in new_clusters[1], b \in new_clusters[2] :
          min_squared_distance(a, b) > get_d(1, 2, new_d)

====
